---- MODULE Spec2Model ----
(***************************************************************************)
(* Model of the built-in output filters of the sailfish runtime            *)
(* (sailfish/src/runtime/filter.rs): upper, lower, trim and truncate, each *)
(* rendering an inner value into the shared Buffer and then rewriting the  *)
(* tail it produced.                                                       *)
(*                                                                         *)
(* The Buffer is the sequence of its bytes [0, len).  Text is UTF-8: the   *)
(* operators below decode and encode it the way the standard library does, *)
(* so that byte positions, character boundaries and the byte length of a   *)
(* case-folded string are those of the real program.                       *)
(***************************************************************************)
EXTENDS Integers, Sequences, FiniteSets, TLC

\* ---------------------------------------------------------------- bounds
\* longest inner text, in characters
MaxChars == 2
\* a filter call is issued only while the buffer holds at most this many bytes
MaxStart == 2
\* the small limits handed to truncate are 0..MaxLimit
MaxLimit == 2
\* width of usize in bits
WordBits == 6

UsizeMax == 2 ^ WordBits - 1
IsizeMax == 2 ^ (WordBits - 1) - 1

\* ------------------------------------------------------------ UTF-8 text
\* UTF-8 encoding of one code point (up to three bytes are needed here)
Encode(cp) ==
    IF cp < 128 THEN << cp >>
    ELSE IF cp < 2048 THEN << 192 + (cp \div 64), 128 + (cp % 64) >>
    ELSE << 224 + (cp \div 4096), 128 + ((cp \div 64) % 64), 128 + (cp % 64) >>

\* (the recursive definitions are functions: their argument is a value)
EncodeAll[cps \in Seq(Nat)] ==
    IF cps = << >> THEN << >> ELSE Encode(Head(cps)) \o EncodeAll[Tail(cps)]

\* number of bytes of the character whose first byte is b
CharWidth(b) == IF b < 128 THEN 1 ELSE IF b < 224 THEN 2 ELSE 3

IsContinuation(b) == b >= 128 /\ b < 192

\* the byte sequence is well-formed UTF-8
ValidUtf8[bytes \in Seq(Nat)] ==
    IF bytes = << >> THEN TRUE
    ELSE LET w == CharWidth(Head(bytes)) IN
         /\ ~IsContinuation(Head(bytes))
         /\ Len(bytes) >= w
         /\ \A i \in 2..w : IsContinuation(bytes[i])
         /\ ValidUtf8[SubSeq(bytes, w + 1, Len(bytes))]

\* the code points of a well-formed byte sequence (str::chars)
Decode[bytes \in Seq(Nat)] ==
    IF bytes = << >> THEN << >>
    ELSE LET b == Head(bytes)
             w == IF CharWidth(b) <= Len(bytes) THEN CharWidth(b) ELSE Len(bytes)
             cp == IF w = 1 THEN b
                   ELSE IF w = 2 THEN (b % 32) * 64 + (bytes[2] % 64)
                   ELSE (b % 16) * 4096 + (bytes[2] % 64) * 64 + (bytes[3] % 64)
         IN << cp >> \o Decode[SubSeq(bytes, w + 1, Len(bytes))]

\* str::is_char_boundary
is_char_boundary(bytes, index) ==
    IF index = 0 THEN TRUE
    ELSE IF index >= Len(bytes) + 1 THEN FALSE
    ELSE IF index = Len(bytes) THEN TRUE
    ELSE ~IsContinuation(bytes[index + 1])

\* char::to_uppercase: ASCII letters, and the sharp s which becomes "SS"
UpperChar(cp) ==
    IF cp >= 97 /\ cp <= 122 THEN << cp - 32 >>
    ELSE IF cp = 223 THEN << 83, 83 >>
    ELSE << cp >>

\* char::to_lowercase: ASCII letters, and the capital sharp s (U+1E9E, three
\* bytes) which becomes the sharp s (U+00DF, two bytes)
LowerChar(cp) ==
    IF cp >= 65 /\ cp <= 90 THEN << cp + 32 >>
    ELSE IF cp = 7838 THEN << 223 >>
    ELSE << cp >>

MapUpper[cps \in Seq(Nat)] ==
    IF cps = << >> THEN << >> ELSE UpperChar(Head(cps)) \o MapUpper[Tail(cps)]

MapLower[cps \in Seq(Nat)] ==
    IF cps = << >> THEN << >> ELSE LowerChar(Head(cps)) \o MapLower[Tail(cps)]

\* str::to_uppercase and str::to_lowercase, on encoded text
to_uppercase(bytes) == EncodeAll[MapUpper[Decode[bytes]]]
to_lowercase(bytes) == EncodeAll[MapLower[Decode[bytes]]]

\* char::is_whitespace (the White_Space code points below U+0100)
is_whitespace(cp) == cp \in {9, 10, 11, 12, 13, 32, 133, 160}

\* str::trim as the sub-slice it returns: the byte offset of the slice in
\* `bytes` and its byte length
LeadingWs[cps \in Seq(Nat)] ==
    IF cps # << >> /\ is_whitespace(Head(cps))
    THEN Len(Encode(Head(cps))) + LeadingWs[Tail(cps)]
    ELSE 0

TrailingWs[cps \in Seq(Nat)] ==
    IF cps # << >> /\ is_whitespace(cps[Len(cps)])
    THEN Len(Encode(cps[Len(cps)])) + TrailingWs[SubSeq(cps, 1, Len(cps) - 1)]
    ELSE 0

\* (for text that is all whitespace the searcher finds no character to keep
\* and trim returns the empty slice at offset 0)
TrimmedSlice(n, lead, trail) ==
    IF lead = n THEN [offset |-> 0, len |-> 0]
    ELSE [offset |-> lead, len |-> n - lead - trail]

str_trim(bytes) ==
    TrimmedSlice(Len(bytes), LeadingWs[Decode[bytes]], TrailingWs[Decode[bytes]])

\* ---------------------------------------------------------------- Buffer
push_str(b, s) == b \o s

\* Buffer::_set_len.  Every call of the filters passes n <= len; a larger n
\* would expose bytes past the end, shown here as zero bytes.
set_len(b, n) ==
    IF n <= Len(b) THEN SubSeq(b, 1, n)
    ELSE b \o [i \in 1..(n - Len(b)) |-> 0]

\* ptr::copy(src, dst, count) inside the buffer's storage: the bytes are
\* read before any is written, so overlapping ranges are allowed
ptr_copy(b, src, dst, count) ==
    [i \in 1..Len(b) |->
        IF i > dst /\ i <= dst + count /\ i - dst + src <= Len(b)
        THEN b[i - dst + src] ELSE b[i]]

\* --------------------------------------------------------------- Escaper
EscapeByte(c) ==
    IF c = 38 THEN << 38, 97, 109, 112, 59 >>
    ELSE IF c = 60 THEN << 38, 108, 116, 59 >>
    ELSE IF c = 62 THEN << 38, 103, 116, 59 >>
    ELSE IF c = 34 THEN << 38, 113, 117, 111, 116, 59 >>
    ELSE IF c = 39 THEN << 38, 35, 51, 57, 59 >>
    ELSE << c >>

Escape[s \in Seq(Nat)] ==
    IF s = << >> THEN << >> ELSE EscapeByte(Head(s)) \o Escape[Tail(s)]

escape_to_buf(s, b) == push_str(b, Escape[s])

\* ----------------------------------------------------------- inner values
\* The value a filter wraps.  "text" is a string slice: render appends it and
\* render_escaped appends its escaped form.  "trim" is trim(&text), a filter
\* wrapped by another filter.  "clear" is a Render implementation that empties
\* the buffer before it appends (it breaks the append-only contract), and
\* "err" is one whose formatting fails.
Alphabet == {97, 65, 32, 60, 7838}

Texts == {EncodeAll[cps] : cps \in UNION {[1..n -> Alphabet] : n \in 0..MaxChars}}

ShortTexts == {<< >>} \cup {Encode(c) : c \in Alphabet}

\* the strings of the unit tests: "<h1>TITLE</h1>", "hElLO, WOrLd!", " hello"
TitleText == << 60, 104, 49, 62, 84, 73, 84, 76, 69, 60, 47, 104, 49, 62 >>
HelloWorldText == << 104, 69, 108, 76, 79, 44, 32, 87, 79, 114, 76, 100, 33 >>
HelloText == << 32, 104, 101, 108, 108, 111 >>
Examples == {TitleText, HelloWorldText, HelloText}

TextValues == [kind : {"text"}, s : Texts \cup Examples]
NestedValues == [kind : {"trim"}, s : Texts]
\* the shorter texts, wrapped in the calls of a longer sequence
SeqValues ==
    [kind : {"text"},
     s : {EncodeAll[cps] : cps \in UNION {[1..n -> Alphabet] : n \in 0..(MaxChars - 1)}}]
BadValues == [kind : {"clear"}, s : ShortTexts] \cup {[kind |-> "err", s |-> << >>]}

AppendOnly(v) == v.kind \in {"text", "trim"}

\* the truncation marker "..."
Marker == << 46, 46, 46 >>

\* ----------------------------------------------------------------- trim
\* The result of one render call: the buffer it leaves, its outcome ("Ok",
\* "Err", or "Panic" for a failed slice index), the buffer as the inner render
\* left it, and for truncate the limit it stored and the position it cut at.
Result(b, status, mid, stored, pos) ==
    [buf |-> b, status |-> status, mid |-> mid, stored |-> stored, pos |-> pos]

\* &b.as_str()[old_len..] is defined only on a character boundary within the text
CanSlice(b, old_len) == old_len <= Len(b) /\ is_char_boundary(b, old_len)

\* trim_move without the ptr::copy: the length shrinks, nothing moves
trim_move_no_copy(b, old_len, new_len, trimmed) ==
    IF new_len # trimmed.len THEN set_len(b, old_len + trimmed.len) ELSE b

\* trim_move with the shrink inside the branch that moves: trailing
\* whitespace alone is never cut
trim_move_front_only(b, old_len, new_len, trimmed) ==
    IF new_len # trimmed.len /\ trimmed.offset # 0
    THEN set_len(ptr_copy(b, old_len + trimmed.offset, old_len, trimmed.len),
                 old_len + trimmed.len)
    ELSE b

\* the in-place move and the shrink of trim_impl, trimmed being the sub-slice
\* str::trim returned for new_contents
trim_move(b, old_len, new_len, trimmed) ==
    IF new_len # trimmed.len
    THEN set_len(IF trimmed.offset # 0
                 THEN ptr_copy(b, old_len + trimmed.offset, old_len, trimmed.len)
                 ELSE b,
                 old_len + trimmed.len)
    ELSE b

trim_impl(b, old_len) ==
    trim_move(b, old_len, Len(b) - old_len, str_trim(SubSeq(b, old_len + 1, Len(b))))

\* <&str as Render>::render / render_escaped
str_render(s, b, esc) == IF esc THEN escape_to_buf(s, b) ELSE push_str(b, s)

\* self.0.render(b) / self.0.render_escaped(b) of the wrapped value
inner_render(v, b, esc) ==
    IF v.kind = "text" THEN [buf |-> str_render(v.s, b, esc), ok |-> TRUE]
    ELSE IF v.kind = "trim"
         THEN [buf |-> trim_impl(str_render(v.s, b, esc), Len(b)), ok |-> TRUE]
    ELSE IF v.kind = "clear" THEN [buf |-> str_render(v.s, << >>, esc), ok |-> TRUE]
    ELSE [buf |-> b, ok |-> FALSE]

\* what a filter returns when the wrapped value's render fails (the ? operator)
Failed(in) == Result(in.buf, "Err", in.buf, 0, 0)

\* the panic of a slice index that is out of range or inside a character
Panicked(in) == Result(in.buf, "Panic", in.buf, 0, 0)

\* Trim::render / render_escaped after the wrapped value has rendered
Trim_after(in, old_len) ==
    IF ~in.ok THEN Failed(in)
    ELSE IF ~CanSlice(in.buf, old_len) THEN Panicked(in)
    ELSE Result(trim_impl(in.buf, old_len), "Ok", in.buf, 0, 0)

Trim_render(v, b, esc) == Trim_after(inner_render(v, b, esc), Len(b))

\* ------------------------------------------------------------------ disp
\* write!(b, "{}", self.0): the Display form of a string slice is the slice
Display_after(in) == IF ~in.ok THEN Failed(in) ELSE Result(in.buf, "Ok", in.buf, 0, 0)

Display_render(v, b) == Display_after(inner_render(v, b, FALSE))

\* ---------------------------------------------------------- upper, lower
\* Upper::render without the _set_len(old_len) before the push
Upper_after_no_set_len(in, old_len) ==
    IF ~in.ok THEN Failed(in)
    ELSE IF ~CanSlice(in.buf, old_len) THEN Panicked(in)
    ELSE Result(push_str(in.buf, to_uppercase(SubSeq(in.buf, old_len + 1, Len(in.buf)))),
                "Ok", in.buf, 0, 0)

\* Upper::render after the wrapped value has rendered
Upper_after(in, old_len) ==
    IF ~in.ok THEN Failed(in)
    ELSE IF ~CanSlice(in.buf, old_len) THEN Panicked(in)
    ELSE Result(push_str(set_len(in.buf, old_len),
                         to_uppercase(SubSeq(in.buf, old_len + 1, Len(in.buf)))),
                "Ok", in.buf, 0, 0)

Upper_render(v, b) == Upper_after(inner_render(v, b, FALSE), Len(b))

\* Upper has no render_escaped of its own: the default renders into a
\* scratch buffer tmp and escapes that into b
Default_after(tmp, b) ==
    IF tmp.status # "Ok" THEN Result(b, tmp.status, tmp.mid, 0, 0)
    ELSE Result(escape_to_buf(tmp.buf, b), "Ok", tmp.mid, 0, 0)

Upper_render_escaped(v, b) == Default_after(Upper_render(v, << >>), b)

\* Lower::render and Lower::render_escaped after the wrapped value has rendered
Lower_after(in, old_len) ==
    IF ~in.ok THEN Failed(in)
    ELSE IF ~CanSlice(in.buf, old_len) THEN Panicked(in)
    ELSE Result(push_str(set_len(in.buf, old_len),
                         to_lowercase(SubSeq(in.buf, old_len + 1, Len(in.buf)))),
                "Ok", in.buf, 0, 0)

Lower_render(v, b) == Lower_after(inner_render(v, b, FALSE), Len(b))

\* Lower::render_escaped calling self.0.render instead of render_escaped
Lower_render_escaped_raw(v, b) == Lower_after(inner_render(v, b, FALSE), Len(b))

Lower_render_escaped(v, b) == Lower_after(inner_render(v, b, TRUE), Len(b))

\* -------------------------------------------------------------- truncate
\* truncate(): limit &= usize::MAX >> 1
truncate(limit) == limit % (2 ^ (WordBits - 1))

\* while !tmp.is_char_boundary(pos) { pos += 1 }.  Past the end of the text no
\* position is a boundary, so pos would run up to usize::MAX and wrap to 0.
RECURSIVE NextBoundary(_, _)
NextBoundary(bytes, pos) ==
    IF pos > Len(bytes) THEN 0
    ELSE IF is_char_boundary(bytes, pos) THEN pos
    ELSE NextBoundary(bytes, pos + 1)

\* the branch of truncate_impl that cuts
Cut(b, limit, pos) == Result(push_str(set_len(b, pos), Marker), "Ok", b, limit, pos)

\* truncate_impl cutting at pos without the search for a character boundary
truncate_at_no_search(b, old_len, limit, pos) ==
    IF Len(b) > pos THEN Cut(b, limit, pos)
    ELSE IF Len(b) >= old_len THEN Result(b, "Ok", b, limit, pos)
    ELSE Result(b, "Err", b, limit, pos)

\* truncate_impl without the check that the buffer did not shrink
truncate_at_no_error(b, old_len, limit, pos) ==
    IF Len(b) > pos THEN Cut(b, limit, NextBoundary(b, pos))
    ELSE Result(b, "Ok", b, limit, pos)

truncate_at(b, old_len, limit, pos) ==
    IF Len(b) > pos THEN Cut(b, limit, NextBoundary(b, pos))
    ELSE IF Len(b) >= old_len THEN Result(b, "Ok", b, limit, pos)
    ELSE Result(b, "Err", b, limit, pos)

\* truncate_impl measuring the limit from the start of the buffer instead of
\* from old_len
truncate_impl_from_zero(b, old_len, limit) ==
    truncate_at(b, old_len, limit, limit % (UsizeMax + 1))

truncate_impl(b, old_len, limit) ==
    truncate_at(b, old_len, limit, (old_len + limit) % (UsizeMax + 1))

\* Truncate::render / render_escaped after the wrapped value has rendered
Truncate_after(in, old_len, limit) ==
    IF ~in.ok THEN Result(in.buf, "Err", in.buf, limit, 0)
    ELSE truncate_impl(in.buf, old_len, limit)

Truncate_render(v, limit, b, esc) ==
    Truncate_after(inner_render(v, b, esc), Len(b), truncate(limit))

\* ----------------------------------------------------------- state machine
\* buf       the Buffer the template code renders into
\* last      the last filter call: which filter, the wrapped value, the limit
\*           given to truncate(), the buffer before the call (pre), after the
\*           inner render (mid), and the outcome
\* expected  the concatenation of what each call since Buffer::new() produces
\*           when rendered alone into an empty buffer
\* clean     every call since Buffer::new() succeeded on an append-only value
VARIABLES buf, last, expected, clean

vars == << buf, last, expected, clean >>

Limits == (0..MaxLimit) \cup {IsizeMax + 1, IsizeMax + 2, UsizeMax}

NoCall ==
    [op |-> "none", esc |-> FALSE, v |-> [kind |-> "text", s |-> << >>], limit |-> 0,
     stored |-> 0, old_len |-> 0, pre |-> << >>, mid |-> << >>, pos |-> 0,
     status |-> "Ok"]

Init ==
    /\ buf = << >>
    /\ last = NoCall
    /\ expected = << >>
    /\ clean = TRUE

\* The buffer cannot grow past isize::MAX bytes.
CanCall(r) ==
    /\ Len(r.mid) + Len(Marker) <= IsizeMax
    /\ Len(r.buf) <= IsizeMax

\* A render call is issued while the current render has not failed, after one
\* of the calls in After.
Ready(After) ==
    /\ last.status = "Ok"
    /\ last.op \in After
    /\ Len(buf) <= MaxStart

\* result is the result of the call on buf, alone the result of the same call
\* on an empty buffer
Call(op, esc, v, limit, result, alone) ==
    \E r \in {result} :
        /\ CanCall(r)
        /\ buf' = r.buf
        /\ last' = [op |-> op, esc |-> esc, v |-> v, limit |-> limit,
                    stored |-> r.stored, old_len |-> Len(buf), pre |-> buf,
                    mid |-> r.mid, pos |-> r.pos, status |-> r.status]
        /\ IF clean /\ AppendOnly(v) /\ r.status = "Ok"
           THEN expected' = expected \o alone.buf /\ clean' = TRUE
           ELSE expected' = << >> /\ clean' = FALSE

\* disp(&text).render(b), the content that precedes a filter's output
CallDisplayRender(Values, After) ==
    /\ Ready(After)
    /\ \E v \in Values :
        /\ Len(v.s) <= MaxStart
        /\ Call("disp", FALSE, v, 0, Display_render(v, buf), Display_render(v, << >>))

CallUpperRender(Values, After) ==
    /\ Ready(After)
    /\ \E v \in Values :
        Call("upper", FALSE, v, 0, Upper_render(v, buf), Upper_render(v, << >>))

CallUpperRenderEscaped(Values, After) ==
    /\ Ready(After)
    /\ \E v \in Values :
        Call("upper", TRUE, v, 0, Upper_render_escaped(v, buf),
             Upper_render_escaped(v, << >>))

CallLowerRender(Values, After) ==
    /\ Ready(After)
    /\ \E v \in Values :
        Call("lower", FALSE, v, 0, Lower_render(v, buf), Lower_render(v, << >>))

CallLowerRenderEscaped(Values, After) ==
    /\ Ready(After)
    /\ \E v \in Values :
        Call("lower", TRUE, v, 0, Lower_render_escaped(v, buf),
             Lower_render_escaped(v, << >>))

CallTrimRender(Values, After) ==
    /\ Ready(After)
    /\ \E v \in Values :
        Call("trim", FALSE, v, 0, Trim_render(v, buf, FALSE),
             Trim_render(v, << >>, FALSE))

CallTrimRenderEscaped(Values, After) ==
    /\ Ready(After)
    /\ \E v \in Values :
        Call("trim", TRUE, v, 0, Trim_render(v, buf, TRUE),
             Trim_render(v, << >>, TRUE))

CallTruncateRender(Values, After) ==
    /\ Ready(After)
    /\ \E v \in Values, limit \in Limits :
        Call("truncate", FALSE, v, limit, Truncate_render(v, limit, buf, FALSE),
             Truncate_render(v, limit, << >>, FALSE))

CallTruncateRenderEscaped(Values, After) ==
    /\ Ready(After)
    /\ \E v \in Values, limit \in Limits :
        Call("truncate", TRUE, v, limit, Truncate_render(v, limit, buf, TRUE),
             Truncate_render(v, limit, << >>, TRUE))

\* the template code starts the next render with a fresh buffer
BufferNew ==
    /\ last.op # "none"
    /\ buf' = << >>
    /\ last' = NoCall
    /\ expected' = << >>
    /\ clean' = TRUE

Filters == {"upper", "lower", "trim", "truncate"}
Fresh == {"none"}
AfterDisplay == {"none", "disp"}
AfterAny == {"none", "disp"} \cup Filters

\* Any sequence of filter calls on one buffer, each wrapping a short string
\* slice.
Next ==
    \/ CallUpperRender(SeqValues, AfterAny)
    \/ CallUpperRenderEscaped(SeqValues, AfterAny)
    \/ CallLowerRender(SeqValues, AfterAny)
    \/ CallLowerRenderEscaped(SeqValues, AfterAny)
    \/ CallTrimRender(SeqValues, AfterAny)
    \/ CallTrimRenderEscaped(SeqValues, AfterAny)
    \/ CallTruncateRender(SeqValues, AfterAny)
    \/ CallTruncateRenderEscaped(SeqValues, AfterAny)
    \/ BufferNew

Spec == Init /\ [][Next]_vars

\* upper and lower after a displayed prefix, on every kind of wrapped value
NextCase ==
    \/ CallDisplayRender(TextValues, Fresh)
    \/ CallUpperRender(TextValues \cup BadValues, AfterDisplay)
    \/ CallUpperRenderEscaped(TextValues \cup BadValues, AfterDisplay)
    \/ CallLowerRender(TextValues \cup BadValues, AfterDisplay)
    \/ CallLowerRenderEscaped(TextValues \cup BadValues, AfterDisplay)
    \/ BufferNew

SpecCase == Init /\ [][NextCase]_vars

\* trim after a displayed prefix, on every kind of wrapped value, trim(&text)
\* included
NextTrim ==
    \/ CallDisplayRender(TextValues, Fresh)
    \/ CallTrimRender(TextValues \cup NestedValues \cup BadValues, AfterDisplay)
    \/ CallTrimRenderEscaped(TextValues \cup NestedValues \cup BadValues, AfterDisplay)
    \/ BufferNew

SpecTrim == Init /\ [][NextTrim]_vars

\* truncate after a displayed prefix, on every kind of wrapped value
NextTruncate ==
    \/ CallDisplayRender(TextValues, Fresh)
    \/ CallTruncateRender(TextValues \cup BadValues, AfterDisplay)
    \/ CallTruncateRenderEscaped(TextValues \cup BadValues, AfterDisplay)
    \/ BufferNew

SpecTruncate == Init /\ [][NextTruncate]_vars

\* ------------------------------------------------------------ the claims
\* the region of the buffer the last call left after its recorded start
Region == SubSeq(buf, last.old_len + 1, Len(buf))

\* what the wrapped value of the last call appended after the recorded start
InnerOut == SubSeq(last.mid, last.old_len + 1, Len(last.mid))

Succeeded(op) == last.op = op /\ last.status = "Ok"

\* the last call cut the inner output somewhere and appended the marker
MarkerAppended == \E cut \in 0..Len(last.mid) : buf = SubSeq(last.mid, 1, cut) \o Marker

\* bytes of the inner output the last truncate call kept
Kept == IF MarkerAppended THEN Len(Region) - Len(Marker) ELSE Len(Region)

\* C1: after truncate(value, limit) succeeds, the marker "..." has been
\* appended if and only if the content the inner value appended is longer than
\* limit, and content at or under the limit is left exactly as rendered.
C1_MarkerIffOverLimit ==
    (Succeeded("truncate") /\ AppendOnly(last.v)) =>
        /\ MarkerAppended <=> Len(InnerOut) > last.limit
        /\ Len(InnerOut) <= last.limit => buf = last.mid

\* C2: after truncate(value, limit) succeeds, the bytes kept from the inner
\* value's output, the marker excluded, never number more than limit.
C2_KeptWithinLimit ==
    (Succeeded("truncate") /\ AppendOnly(last.v)) => Kept <= last.limit

C4_ShrunkBufferIsError ==
    (last.op = "truncate" /\ Len(last.mid) < last.old_len) =>
        /\ last.status = "Err"
        /\ buf = last.mid

\* C4 witness: the buffer shrank under the largest limit, and the call failed.
C4_Witness ==
    /\ last.op = "truncate"
    /\ last.v.kind = "clear"
    /\ Len(last.mid) < last.old_len
    /\ last.limit = UsizeMax
    /\ last.status = "Err"

\* "&lt;h1&gt;title&lt;/h1&gt;"
EscapedLowerTitle ==
    << 38, 108, 116, 59, 104, 49, 38, 103, 116, 59, 116, 105, 116, 108, 101,
       38, 108, 116, 59, 47, 104, 49, 38, 103, 116, 59 >>

\* no escape entity of the region was case-folded: the byte after each '&' is
\* not an uppercase letter
EntitiesUnfolded(region) ==
    \A i \in 1..(Len(region) - 1) : region[i] = 38 => ~(region[i + 1] \in 65..90)

\* C5: lower(x).render_escaped appends lowercase(escape(x)), so that
\* "<h1>TITLE</h1>" yields "&lt;h1&gt;title&lt;/h1&gt;"; upper's escaped output
\* comes from the default path, escape(uppercase(x)), whose entities are never
\* case-folded.
C5_LowerEscapesThenFolds ==
    /\ (Succeeded("lower") /\ last.esc /\ last.v.kind = "text") =>
          /\ buf = last.pre \o to_lowercase(Escape[last.v.s])
          /\ last.v.s = TitleText => Region = EscapedLowerTitle
    /\ (Succeeded("upper") /\ last.esc /\ last.v.kind = "text") =>
          /\ buf = last.pre \o Escape[to_uppercase(last.v.s)]
          /\ EntitiesUnfolded(Region)

\* C5 witness: "<h1>TITLE</h1>" rendered escaped through lower after a prefix.
C5_Witness ==
    /\ Succeeded("lower")
    /\ last.esc
    /\ last.v = [kind |-> "text", s |-> TitleText]
    /\ last.old_len > 0
    /\ Region = EscapedLowerTitle

IsLetter(cp) == cp \in 65..90 \/ cp \in 97..122 \/ cp \in {223, 7838}
NotLetter(cp) == ~IsLetter(cp)

\* C6: after upper(value).render succeeds the appended region holds no
\* lowercase ASCII letter, after lower(value).render succeeds it holds no
\* uppercase ASCII letter, and the non-letter characters of the inner output
\* are kept in order.
C6_CaseFolded ==
    /\ (Succeeded("upper") /\ ~last.esc) =>
          /\ \A i \in 1..Len(Region) : ~(Region[i] \in 97..122)
          /\ SelectSeq(Decode[Region], NotLetter) = SelectSeq(Decode[InnerOut], NotLetter)
    /\ (Succeeded("lower") /\ ~last.esc) =>
          /\ \A i \in 1..Len(Region) : ~(Region[i] \in 65..90)
          /\ SelectSeq(Decode[Region], NotLetter) = SelectSeq(Decode[InnerOut], NotLetter)

\* C6 witness: "hElLO, WOrLd!" through upper, after a non-empty prefix, gives
\* "HELLO, WORLD!".
C6_Witness ==
    /\ Succeeded("upper")
    /\ ~last.esc
    /\ last.old_len > 0
    /\ last.v = [kind |-> "text", s |-> HelloWorldText]
    /\ Region = << 72, 69, 76, 76, 79, 44, 32, 87, 79, 82, 76, 68, 33 >>

\* C7: trim is idempotent: trim applied to what trim(x) rendered changes
\* neither the bytes nor the length of the buffer, and the content appended is
\* that of rendering trim(x) once.
C7_TrimIdempotent ==
    (Succeeded("trim") /\ last.v.kind = "trim") =>
        /\ buf = last.mid
        /\ Len(buf) = Len(last.mid)
        /\ buf = Trim_render([kind |-> "text", s |-> last.v.s], last.pre, last.esc).buf

\* C7 witness: trim(trim(x)) after a non-empty prefix, where the inner trim
\* removed whitespace and left some text.
C7_Witness ==
    /\ Succeeded("trim")
    /\ last.v.kind = "trim"
    /\ last.old_len > 0
    /\ Len(InnerOut) > 0
    /\ Len(InnerOut) < Len(last.v.s)

AllWhitespace(bytes) ==
    \A k \in 1..Len(Decode[bytes]) : is_whitespace(Decode[bytes][k])

NoOuterWhitespace(bytes) ==
    bytes # << >> =>
        /\ ~is_whitespace(Head(Decode[bytes]))
        /\ ~is_whitespace(Decode[bytes][Len(Decode[bytes])])

\* r is s without its leading and trailing whitespace
IsTrimOf(r, s) ==
    \E i \in 0..Len(s) : \E j \in i..Len(s) :
        /\ r = SubSeq(s, i + 1, j)
        /\ AllWhitespace(SubSeq(s, 1, i))
        /\ AllWhitespace(SubSeq(s, j + 1, Len(s)))
        /\ NoOuterWhitespace(r)

C10_NoTruncationAboveIsizeMax ==
    /\ (Succeeded("truncate") /\ AppendOnly(last.v) /\ last.limit > IsizeMax) =>
          buf = last.mid
    /\ last.op = "truncate" => last.old_len + last.stored <= UsizeMax

====
